---- MODULE Spec2Model ----
(***************************************************************************)
(* Model of the Meta-leads fetcher: src/src/fetcher.py (fetch_leads,       *)
(* normalize_lead, write_output, main) and src/src/utils/db.py (LeadDB).   *)
(*                                                                         *)
(* Python values are modelled as sequences of one-character strings, so    *)
(* that str.strip, str.lower and the `in` substring test are computed      *)
(* character by character.  None and a non-string (integer) value are      *)
(* tagged sequences, which keeps every value comparable with every other.  *)
(***************************************************************************)
EXTENDS Integers, Sequences, FiniteSets, TLC

VARIABLES
  \* ---- normalize_lead on one raw record (SpecNorm)
  nraw, nout, npc,
  \* ---- LeadDB: the sqlite file and the connection (Spec, SpecDB)
  store,
  \* ---- LeadDB call log (SpecDB)
  calls, marked,
  \* ---- main (Spec)
  raw_leads, dry_run, output, idx, new_leads, lid, files, pc,
  run, db0, files0, markedAt, writerCalls, prev,
  \* ---- fetch_leads (SpecFetch)
  pages, access_token, url, params, leads, resp, fpc, reqlog, ret, failed

normVars  == <<nraw, nout, npc>>
dbVars    == <<store>>
dbLogVars == <<calls, marked>>
mainVars  == <<raw_leads, dry_run, output, idx, new_leads, lid, files, pc,
               run, db0, files0, markedAt, writerCalls, prev>>
fetchVars == <<pages, access_token, url, params, leads, resp, fpc, reqlog, ret, failed>>
vars      == <<normVars, dbVars, dbLogVars, mainVars, fetchVars>>

(***************************************************************************)
(* Bounds of the model.                                                    *)
(***************************************************************************)
MaxFields == 2
MaxLeads  == 2
MaxRuns   == 2
MaxPages  == 3
MaxCalls  == 5

(***************************************************************************)
(* Python values.                                                          *)
(***************************************************************************)
None == <<"#None">>
\* a non-string JSON scalar (an integer): truthy unless it is 0
Int7 == <<"#int", "7">>
Int0 == <<"#int", "0">>

IsNone(v) == v = None
IsInt(v)  == Len(v) > 0 /\ v[1] = "#int"
IsStr(v)  == ~IsNone(v) /\ ~IsInt(v)

\* Python truthiness of None, a string or an integer
Truthy(v) == v # None /\ v # <<>> /\ v # Int0

\* Python `a or b`
PyOr(a, b) == IF Truthy(a) THEN a ELSE b

\* str(v): a string is itself, an integer is its digits
Str(v) == IF IsInt(v) THEN Tail(v) ELSE v

Upper == <<"A","B","C","D","E","F","G","H","I","J","K","L","M",
           "N","O","P","Q","R","S","T","U","V","W","X","Y","Z">>
Lower == <<"a","b","c","d","e","f","g","h","i","j","k","l","m",
           "n","o","p","q","r","s","t","u","v","w","x","y","z">>

LowerOf ==
  [c \in { Upper[i] : i \in 1..Len(Upper) } |->
     Lower[CHOOSE i \in 1..Len(Upper) : Upper[i] = c]]

LowerChar(c) == IF c \in DOMAIN LowerOf THEN LowerOf[c] ELSE c

\* str.lower()
lower(s) == [i \in 1..Len(s) |-> LowerChar(s[i])]

Whitespace == {" ", "\t"}

RECURSIVE lstrip(_)
lstrip(s) == IF s # <<>> /\ Head(s) \in Whitespace THEN lstrip(Tail(s)) ELSE s

RECURSIVE rstrip(_)
rstrip(s) ==
  IF s # <<>> /\ s[Len(s)] \in Whitespace THEN rstrip(SubSeq(s, 1, Len(s) - 1)) ELSE s

\* str.strip()
strip(s) == rstrip(lstrip(s))

\* Python `sub in s` on strings
Contains(sub, s) ==
  \E i \in 1..(Len(s) - Len(sub) + 1) : SubSeq(s, i, i + Len(sub) - 1) = sub

kEmail    == <<"e","m","a","i","l">>
kName     == <<"n","a","m","e">>
kFullName == <<"f","u","l","l","_","n","a","m","e">>
kFirstName == <<"f","i","r","s","t","_","n","a","m","e">>
kPhone    == <<"p","h","o","n","e">>
kMobile   == <<"m","o","b","i","l","e">>

(***************************************************************************)
(* Raw records.  A raw record is the JSON object of one lead; a key that   *)
(* is missing reads as None through dict.get.  A field entry is            *)
(* {name, values}: kind "list" is a JSON list of values, kind "str" a bare *)
(* string (items holds it), kind "none" a missing or null values key.      *)
(***************************************************************************)
Field(n, k, its) == [name |-> n, kind |-> k, items |-> its]

Raw(i, ct, fd, em, ema, ph, phn, nm, fn) ==
  [id |-> i, created_time |-> ct, field_data |-> fd, email |-> em,
   email_address |-> ema, phone |-> ph, phone_number |-> phn,
   name |-> nm, full_name |-> fn]

\* field.get("values") or [], a bare string wrapped in a list
FieldVals(field) ==
  IF field.kind = "str"
  THEN (IF Truthy(field.items[1]) THEN <<field.items[1]>> ELSE <<>>)
  ELSE field.items

\* vals[0] if vals else None
FirstVal(field) ==
  LET vals == FieldVals(field) IN IF vals # <<>> THEN vals[1] ELSE None

\* (field.get("name") or "").lower()
FieldKey(field) == lower(PyOr(field.name, <<>>))

\* the attribute a lower-cased key is classified to (the if/elif chain)
Classify(key) ==
  IF Contains(kEmail, key) THEN "email"
  ELSE IF Contains(kName, key) \/ Contains(kFullName, key) \/ Contains(kFirstName, key)
       THEN "name"
  ELSE IF Contains(kPhone, key) \/ Contains(kMobile, key) THEN "phone"
  ELSE "other"

\* the value a classified entry contributes: val.strip(), lower-cased for email
Clean(attr, val) == IF attr = "email" THEN lower(strip(val)) ELSE strip(val)

\* a mutant of Assign: the later entry replaces the earlier one
AssignLast(cur, attr, val) == Clean(attr, val)

\* `x = x or <clean val>`: the first truthy assignment sticks
Assign(cur, attr, val) == PyOr(cur, Clean(attr, val))

\* one iteration of the loop over field_data; acc.err records that
\* val.strip() was evaluated on a non-string and raised AttributeError
\* (`x or val.strip()` evaluates val.strip() only when x is falsy)
FieldStep(acc, field) ==
  LET key  == FieldKey(field)
      val  == FirstVal(field)
      attr == Classify(key)
  IN IF acc.err \/ ~Truthy(val) \/ attr = "other" THEN acc
     ELSE IF ~Truthy(acc[attr]) /\ ~IsStr(val) THEN [acc EXCEPT !.err = TRUE]
     ELSE [acc EXCEPT ![attr] = Assign(acc[attr], attr, val)]

RECURSIVE FieldLoop(_, _)
FieldLoop(acc, fd) ==
  IF fd = <<>> THEN acc ELSE FieldLoop(FieldStep(acc, Head(fd)), Tail(fd))

\* the result of normalize_lead; err = TRUE stands for the raised AttributeError
Lead(i, ct, nm, em, ph, r, e) ==
  [lead_id |-> i, created_time |-> ct, name |-> nm, email |-> em, phone |-> ph,
   raw |-> r, err |-> e]

normalize_lead(raw) ==
  LET acc == FieldLoop([name |-> None, email |-> None, phone |-> None, err |-> FALSE],
                       raw.field_data)
      email == PyOr(PyOr(acc.email, raw.email), raw.email_address)
      phone == PyOr(PyOr(acc.phone, raw.phone), raw.phone_number)
      name  == PyOr(PyOr(acc.name, raw.name), raw.full_name)
  IN IF acc.err
     THEN Lead(None, None, None, None, None, raw, TRUE)
     ELSE Lead(IF raw.id # None THEN Str(raw.id) ELSE None,
               raw.created_time, name, email, phone, raw, FALSE)

(***************************************************************************)
(* Inputs of the normalizer specification.                                 *)
(***************************************************************************)
sEmail     == <<"E","m","a","i","l">>
sEmail2    == <<"e","m","a","i","l","2">>
sName      == <<"N","a","m","e">>
sMobile    == <<"M","o","b","i","l","e">>
sPhoneName == <<"p","h","o","n","e","_","n","a","m","e">>
sCity      == <<"c","i","t","y">>

NamePool == {sEmail, sEmail2, sName, sMobile, sPhoneName, sCity}

vAX    == <<"A","@","X"," ">>
vby    == <<"b","@","y">>
vBlank == <<" ">>
vBob   == <<"\t","B","o","b">>
vcz    == <<"c","@","z">>

FieldPool ==
  { Field(n, "list", <<v>>) : n \in NamePool, v \in {vAX, vby, vBlank, <<>>} }
  \cup { Field(n, "list", <<>>) : n \in NamePool }
  \cup { Field(n, "str", <<vBob>>) : n \in NamePool }

\* all sequences over S of length at most n
RECURSIVE SeqsUpTo(_, _)
SeqsUpTo(S, n) ==
  IF n = 0 THEN {<<>>}
  ELSE LET shorter == SeqsUpTo(S, n - 1)
       IN shorter \cup { Append(q, x) : q \in shorter, x \in S }

\* the top-level fallback keys: none, or email_address and phone
TopPool == { <<None, None>>, <<vcz, <<"1">>>> }

NormInputs ==
  { Raw(<<"a">>, None, fd, None, top[1], top[2], None, None, None) :
      fd \in SeqsUpTo(FieldPool, MaxFields), top \in TopPool }

NoLead == Lead(None, None, None, None, None, None, FALSE)
NoRaw  == Raw(None, None, <<>>, None, None, None, None, None, None)

InitNorm ==
  /\ nraw \in NormInputs
  /\ nout = NoLead
  /\ npc = "call"

\* normalized = normalize_lead(raw)
Normalize ==
  /\ UNCHANGED <<dbVars, dbLogVars, mainVars, fetchVars>>
  /\ npc = "call"
  /\ nout' = normalize_lead(nraw)
  /\ npc' = "done"
  /\ UNCHANGED nraw

(***************************************************************************)
(* LeadDB (src/src/utils/db.py).  disk is the committed content of the     *)
(* seen_leads table in the file at db_path; pending holds the rows the     *)
(* connection has inserted and not committed; conn is the connection.      *)
(***************************************************************************)
Store(d, p, c) == [disk |-> d, pending |-> p, conn |-> c]

\* LeadDB.__init__: connect, CREATE TABLE IF NOT EXISTS, commit.  A row an
\* earlier connection left uncommitted is not in the file.
LeadDB(s) == Store(s.disk, {}, "open")

\* SELECT 1 FROM seen_leads WHERE lead_id=? ... fetchone() is not None
is_seen(s, lead_id) == lead_id \in (s.disk \cup s.pending)

\* INSERT OR IGNORE INTO seen_leads(lead_id) VALUES(?)
InsertOrIgnore(s, lead_id) ==
  IF lead_id \in s.disk THEN s ELSE [s EXCEPT !.pending = @ \cup {lead_id}]

\* conn.commit()
Commit(s) == Store(s.disk \cup s.pending, {}, s.conn)

\* a mutant of mark_seen: the insert is never committed
MarkSeenNoCommit(s, lead_id) == InsertOrIgnore(s, lead_id)

\* a mutant of mark_seen: the call does nothing
MarkSeenNoop(s, lead_id) == s

\* a mutant of mark_seen: INSERT OR REPLACE of a single-row table
MarkSeenReplace(s, lead_id) == Store({lead_id}, {}, s.conn)

mark_seen(s, lead_id) == Commit(InsertOrIgnore(s, lead_id))

\* conn.close(): an uncommitted transaction is rolled back; closing a
\* closed connection does nothing
close(s) == Store(s.disk, {}, "closed")

IdPool == {<<"a">>, <<"b">>, <<"0">>}

Call(o, i, r) == [op |-> o, id |-> i, result |-> r]

InitDB ==
  /\ store = LeadDB(Store({}, {}, "closed"))
  /\ calls = <<>>
  /\ marked = {}

\* LeadDB(db_path) again on the same path (a later process, or a reopen)
DbOpen ==
  /\ UNCHANGED <<normVars, mainVars, fetchVars>>
  /\ Len(calls) < MaxCalls
  /\ store' = LeadDB(store)
  /\ calls' = Append(calls, Call("open", <<>>, "ok"))
  /\ UNCHANGED marked

\* db.is_seen(lead_id); sqlite3 raises ProgrammingError on a closed connection
DbIsSeen ==
  /\ UNCHANGED <<normVars, mainVars, fetchVars>>
  /\ Len(calls) < MaxCalls
  /\ \E lead_id \in IdPool :
       /\ calls' = Append(calls, Call("is_seen", lead_id,
                      IF store.conn = "closed" THEN "ProgrammingError"
                      ELSE IF is_seen(store, lead_id) THEN "True" ELSE "False"))
       /\ UNCHANGED <<store, marked>>

\* db.mark_seen(lead_id) on an open connection
DbMarkSeen ==
  /\ UNCHANGED <<normVars, mainVars, fetchVars>>
  /\ Len(calls) < MaxCalls
  /\ \E lead_id \in IdPool :
       /\ store.conn = "open"
       /\ store' = mark_seen(store, lead_id)
       /\ marked' = marked \cup {lead_id}
       /\ calls' = Append(calls, Call("mark_seen", lead_id, "ok"))

\* db.mark_seen(lead_id) on a closed connection: sqlite3 raises ProgrammingError
DbMarkSeenClosed ==
  /\ UNCHANGED <<normVars, mainVars, fetchVars>>
  /\ Len(calls) < MaxCalls
  /\ \E lead_id \in IdPool :
       /\ store.conn = "closed"
       /\ calls' = Append(calls, Call("mark_seen", lead_id, "ProgrammingError"))
       /\ UNCHANGED <<store, marked>>

\* db.close()
DbClose ==
  /\ UNCHANGED <<normVars, mainVars, fetchVars>>
  /\ Len(calls) < MaxCalls
  /\ store' = close(store)
  /\ calls' = Append(calls, Call("close", <<>>, "ok"))
  /\ UNCHANGED marked

(***************************************************************************)
(* write_output (src/src/fetcher.py).  A file is its rows; a file that was *)
(* never written has exists = FALSE.                                       *)
(***************************************************************************)
File(e, h, r) == [exists |-> e, header |-> h, rows |-> r]

NoFile == File(FALSE, <<>>, <<>>)

\* json.dump(new_leads, f): the array of lead objects
JsonDump(batch) == File(TRUE, <<>>, batch)

\* a csv cell: DictWriter writes None as the empty string
CsvCell(v) == IF v = None THEN <<>> ELSE Str(v)

\* the fixed columns followed by the sorted remaining keys (only "raw")
Fieldnames == <<"lead_id", "name", "email", "phone", "created_time", "raw">>

\* one csv row: raw is flattened to its compact JSON text
CsvRow(l) ==
  [lead_id |-> CsvCell(l.lead_id), name |-> CsvCell(l.name), email |-> CsvCell(l.email),
   phone |-> CsvCell(l.phone), created_time |-> CsvCell(l.created_time),
   raw |-> [dumps |-> l.raw]]

\* writer.writeheader() then writer.writerow(r) for each lead
CsvDump(batch) ==
  File(TRUE, Fieldnames, [i \in 1..Len(batch) |-> CsvRow(batch[i])])

\* a mutant of write_output: the file is opened in append mode
WriteOutputAppend(fs, batch, out) ==
  IF batch = <<>> THEN fs
  ELSE IF out = "json"
       THEN [fs EXCEPT !.json = File(TRUE, <<>>, fs.json.rows \o batch)]
       ELSE [fs EXCEPT !.csv = File(TRUE, Fieldnames, fs.csv.rows \o CsvDump(batch).rows)]

\* fs is the pair of files in the working directory
write_output(fs, batch, out) ==
  IF batch = <<>> THEN fs
  ELSE IF out = "json" THEN [fs EXCEPT !.json = JsonDump(batch)]
  ELSE [fs EXCEPT !.csv = CsvDump(batch)]

(***************************************************************************)
(* main (src/src/fetcher.py).                                              *)
(***************************************************************************)
\* the raw leads the runs are fed with
RawPool ==
  { Raw(<<"a">>, <<"t">>, <<Field(sEmail, "list", <<vAX>>)>>, None, None, None, None, None, None),
    Raw(<<"a">>, None, <<>>, None, None, <<"1">>, None, None, None),
    Raw(Int0, None, <<Field(sMobile, "list", <<vby>>)>>, None, None, None, None, None, None),
    Raw(None, None, <<>>, vcz, None, None, None, None, None),
    Raw(<<>>, None, <<>>, vcz, None, None, None, None, None),
    Raw(<<"b">>, None, <<Field(sEmail, "list", <<vBlank>>), Field(sName, "str", <<vBob>>)>>,
        None, None, None, None, None, None),
    Raw(<<"b">>, None, <<Field(sEmail, "list", <<Int7>>)>>, None, None, None, None, None, None) }

\* normalize_lead over the raw leads of the pool, computed once
NormOf == [r \in RawPool |-> normalize_lead(r)]

\* normalized = normalize_lead(raw)
Normalized(raw) == NormOf[raw]

\* the entry main appends to new_leads
Entry(n) ==
  [lead_id |-> n.lead_id, name |-> n.name, email |-> n.email, phone |-> n.phone,
   created_time |-> n.created_time, raw |-> n.raw]

\* how the run before the current one went (prev)
Summary(d, c) == [dry |-> d, completed |-> c]

NoRun == Summary(FALSE, FALSE)

\* the record the loop is at
Cur == raw_leads[idx + 1]

InLoop == pc = "loop" /\ idx < Len(raw_leads)

Init ==
  /\ raw_leads \in SeqsUpTo(RawPool, MaxLeads)
  /\ store \in { Store(d, {}, "closed") : d \in {{}, {<<"a">>}} }
  /\ dry_run = FALSE
  /\ output = "json"
  /\ idx = 0
  /\ new_leads = <<>>
  /\ lid = None
  /\ files = [json |-> NoFile, csv |-> NoFile]
  /\ pc = "idle"
  /\ run = 0
  /\ db0 = store.disk
  /\ files0 = files
  /\ markedAt = {}
  /\ writerCalls = 0
  /\ prev = NoRun

\* not args.mock_sample and the token or the form id is unset: sys.exit(1)
\* before the LeadDB is opened; nothing changes
ExitNoConfig ==
  /\ pc \in {"idle", "done", "aborted"}
  /\ UNCHANGED vars

\* args = parse_args(); db = LeadDB(args.db)
StartRun ==
  /\ UNCHANGED <<normVars, dbLogVars, fetchVars>>
  /\ pc \in {"idle", "done", "aborted"}
  /\ run < MaxRuns
  /\ run' = run + 1
  /\ dry_run' \in BOOLEAN
  /\ output' \in {"json", "csv"}
  /\ store' = LeadDB(store)
  /\ db0' = store.disk
  /\ files0' = files
  /\ idx' = 0
  /\ new_leads' = <<>>
  /\ lid' = None
  /\ markedAt' = {}
  /\ writerCalls' = 0
  /\ pc' = "fetch"
  /\ prev' = (IF run = 0 THEN NoRun ELSE Summary(dry_run, pc = "done"))
  /\ UNCHANGED <<raw_leads, files>>

\* raw_leads = load_sample() or fetch_leads(...); new_leads = []
Fetched ==
  /\ UNCHANGED <<normVars, dbLogVars, fetchVars>>
  /\ pc = "fetch"
  /\ pc' = "loop"
  /\ UNCHANGED <<raw_leads, dry_run, output, idx, new_leads, lid, files, run, db0,
                 files0, markedAt, writerCalls, prev, store>>

\* fetch_leads raises; finally: db.close()
FetchRaises ==
  /\ UNCHANGED <<normVars, dbLogVars, fetchVars>>
  /\ pc = "fetch"
  /\ store' = close(store)
  /\ UNCHANGED prev
  /\ pc' = "aborted"
  /\ UNCHANGED <<raw_leads, dry_run, output, idx, new_leads, lid, files, run, db0,
                 files0, markedAt, writerCalls>>

\* normalize_lead(raw) raises AttributeError; finally: db.close()
NormalizeRaises ==
  /\ UNCHANGED <<normVars, dbLogVars, fetchVars>>
  /\ InLoop
  /\ Normalized(Cur).err
  /\ store' = close(store)
  /\ UNCHANGED prev
  /\ pc' = "aborted"
  /\ UNCHANGED <<raw_leads, dry_run, output, idx, new_leads, lid, files, run, db0,
                 files0, markedAt, writerCalls>>

\* if not lid: continue
SkipNoId ==
  /\ UNCHANGED <<normVars, dbLogVars, fetchVars>>
  /\ InLoop
  /\ LET n == Normalized(Cur) IN ~n.err /\ ~Truthy(n.lead_id)
  /\ idx' = idx + 1
  /\ UNCHANGED <<raw_leads, dry_run, output, new_leads, lid, files, pc, run, db0,
                 files0, markedAt, writerCalls, prev, store>>

\* if not normalized.get("email") and not normalized.get("phone"): continue
SkipNoContact ==
  /\ UNCHANGED <<normVars, dbLogVars, fetchVars>>
  /\ InLoop
  /\ LET n == Normalized(Cur)
     IN ~n.err /\ Truthy(n.lead_id) /\ ~Truthy(n.email) /\ ~Truthy(n.phone)
  /\ idx' = idx + 1
  /\ UNCHANGED <<raw_leads, dry_run, output, new_leads, lid, files, pc, run, db0,
                 files0, markedAt, writerCalls, prev, store>>

\* a mutant of Passes: the contact-channel check is missing
PassesNoContactCheck(n, s) ==
  /\ ~n.err
  /\ Truthy(n.lead_id)
  /\ ~is_seen(s, n.lead_id)

\* the three checks a record passes before it is appended
Passes(n, s) ==
  /\ ~n.err
  /\ Truthy(n.lead_id)
  /\ (Truthy(n.email) \/ Truthy(n.phone))
  /\ ~is_seen(s, n.lead_id)

\* if db.is_seen(lid): continue
SkipSeen ==
  /\ UNCHANGED <<normVars, dbLogVars, fetchVars>>
  /\ InLoop
  /\ LET n == Normalized(Cur)
     IN /\ ~n.err /\ Truthy(n.lead_id) /\ (Truthy(n.email) \/ Truthy(n.phone))
        /\ is_seen(store, n.lead_id)
  /\ idx' = idx + 1
  /\ UNCHANGED <<raw_leads, dry_run, output, new_leads, lid, files, pc, run, db0,
                 files0, markedAt, writerCalls, prev, store>>

\* a mutant of Accept: the id is marked in a dry run too
AcceptAlwaysMarks ==
  /\ UNCHANGED <<normVars, dbLogVars, fetchVars>>
  /\ InLoop
  /\ LET n == Normalized(Cur)
     IN /\ Passes(n, store)
        /\ new_leads' = Append(new_leads, Entry(n))
        /\ lid' = n.lead_id
  /\ idx' = idx /\ pc' = "mark"
  /\ UNCHANGED <<raw_leads, dry_run, output, files, run, db0, files0, markedAt,
                 writerCalls, prev, store>>

\* a mutant of Accept: write_output is called inside the loop
AcceptWritesEarly ==
  /\ UNCHANGED <<normVars, dbLogVars, fetchVars>>
  /\ InLoop
  /\ LET n == Normalized(Cur)
     IN /\ Passes(n, store)
        /\ new_leads' = Append(new_leads, Entry(n))
        /\ lid' = n.lead_id
  /\ files' = write_output(files, new_leads', output)
  /\ IF dry_run THEN idx' = idx + 1 /\ pc' = "loop"
                ELSE idx' = idx /\ pc' = "mark"
  /\ UNCHANGED <<raw_leads, dry_run, output, run, db0, files0, markedAt,
                 writerCalls, prev, store>>

\* new_leads.append({...}); in a dry run the iteration ends here
Accept ==
  /\ UNCHANGED <<normVars, dbLogVars, fetchVars>>
  /\ InLoop
  /\ LET n == Normalized(Cur)
     IN /\ Passes(n, store)
        /\ new_leads' = Append(new_leads, Entry(n))
        /\ lid' = n.lead_id
  /\ IF dry_run THEN idx' = idx + 1 /\ pc' = "loop"
                ELSE idx' = idx /\ pc' = "mark"
  /\ UNCHANGED <<raw_leads, dry_run, output, files, run, db0, files0, markedAt,
                 writerCalls, prev, store>>

\* if not args.dry_run: db.mark_seen(lid)
Mark ==
  /\ UNCHANGED <<normVars, dbLogVars, fetchVars>>
  /\ pc = "mark"
  /\ store' = mark_seen(store, lid)
  /\ markedAt' = markedAt \cup {idx + 1}
  /\ idx' = idx + 1
  /\ pc' = "loop"
  /\ UNCHANGED <<raw_leads, dry_run, output, new_leads, lid, files, run, db0, files0,
                 writerCalls, prev>>

\* write_output(new_leads, output=args.output); finally: db.close()
Write ==
  /\ UNCHANGED <<normVars, dbLogVars, fetchVars>>
  /\ pc = "loop"
  /\ idx = Len(raw_leads)
  /\ files' = write_output(files, new_leads, output)
  /\ writerCalls' = writerCalls + 1
  /\ store' = close(store)
  /\ UNCHANGED prev
  /\ pc' = "done"
  /\ UNCHANGED <<raw_leads, dry_run, output, idx, new_leads, lid, run, db0, files0,
                 markedAt>>

(***************************************************************************)
(* fetch_leads (src/src/fetcher.py).  The upstream API is a chain of       *)
(* pages: page i carries the cursor of page i+1 and the last page carries  *)
(* none.  A URL is the number of the page it addresses; 0 is a missing     *)
(* (None) cursor.  SESSION.get either returns a response or raises         *)
(* (connection error, or the adapter's retries exhausted).                 *)
(***************************************************************************)
Page(k, d, nx) == [kind |-> k, data |-> d, next |-> nx]

DataPool == {<<>>, <<"r1">>, <<"r2", "r3">>}

\* the chains of n pages; the body of the last page may be a bare JSON list
ChainsOfLen(n) ==
  { [i \in 1..n |-> Page(IF i = n THEN lastKind ELSE "dict", ds[i],
                         IF i = n THEN 0 ELSE i + 1)] :
      ds \in [1..n -> DataPool], lastKind \in {"dict", "list"} }

PageChains == UNION { ChainsOfLen(n) : n \in 1..MaxPages }

\* the statuses SESSION.get hands back: 501 is a server error outside the
\* adapter's status_forcelist
Statuses == {200, 404, 501}

Req(u, p, st, e) == [url |-> u, params |-> p, status |-> st, exc |-> e]

\* data.get("data") if isinstance(data, dict) else data
PageItems(page) == page.data

\* paging = data.get("paging", {}) if dict else {}; paging.get("next")
NextUrl(page) == IF page.kind = "dict" THEN page.next ELSE 0

\* a mutant of Extend: the page replaces what was accumulated
ExtendReplace(acc, items) == IF items # <<>> THEN items ELSE acc

\* if page_items: leads.extend(page_items)
Extend(acc, items) == IF items # <<>> THEN acc \o items ELSE acc

\* a mutant of NeedsRetry: every status but 200 is retried
NeedsRetryNot200(st) == st # 200

\* if resp.status_code >= 500
NeedsRetry(st) == st >= 500

\* resp.raise_for_status() raises HTTPError on 4xx and 5xx
IsErrorStatus(st) == 400 <= st /\ st < 600

InitFetch ==
  /\ pages \in PageChains
  /\ access_token \in {<<>>, <<"t">>}
  /\ url = 0
  /\ params = "unset"
  /\ leads = <<>>
  /\ resp = 0
  /\ fpc = "start"
  /\ reqlog = <<>>
  /\ ret = None
  /\ failed = FALSE

\* if not access_token: raise RuntimeError
FetchNoToken ==
  /\ UNCHANGED <<normVars, dbVars, dbLogVars, mainVars>>
  /\ fpc = "start"
  /\ ~Truthy(access_token)
  /\ fpc' = "raised"
  /\ UNCHANGED <<pages, access_token, url, params, leads, resp, reqlog, ret, failed>>

\* url = build_url(form_id); params = {...}; leads = []
FetchStart ==
  /\ UNCHANGED <<normVars, dbVars, dbLogVars, mainVars>>
  /\ fpc = "start"
  /\ Truthy(access_token)
  /\ url' = 1
  /\ params' = "initial"
  /\ leads' = <<>>
  /\ fpc' = "get"
  /\ UNCHANGED <<pages, access_token, resp, reqlog, ret, failed>>

\* while url: resp = SESSION.get(url, params=params, timeout=30)
Get ==
  /\ UNCHANGED <<normVars, dbVars, dbLogVars, mainVars>>
  /\ fpc = "get"
  /\ url # 0
  /\ \E st \in Statuses :
       /\ resp' = st
       /\ reqlog' = Append(reqlog, Req(url, params, st, FALSE))
       /\ fpc' = IF NeedsRetry(st) THEN "retry" ELSE "status"
       /\ failed' = (failed \/ st # 200)
  /\ UNCHANGED <<pages, access_token, url, params, leads, ret>>

\* SESSION.get raises
GetRaises ==
  /\ UNCHANGED <<normVars, dbVars, dbLogVars, mainVars>>
  /\ fpc = "get"
  /\ url # 0
  /\ reqlog' = Append(reqlog, Req(url, params, 0, TRUE))
  /\ failed' = TRUE
  /\ fpc' = "raised"
  /\ UNCHANGED <<pages, access_token, url, params, leads, resp, ret>>

\* time.sleep(1); resp = SESSION.get(url, params=params, timeout=30)
RetryGet ==
  /\ UNCHANGED <<normVars, dbVars, dbLogVars, mainVars>>
  /\ fpc = "retry"
  /\ \E st \in Statuses :
       /\ resp' = st
       /\ reqlog' = Append(reqlog, Req(url, params, st, FALSE))
       /\ failed' = (failed \/ st # 200)
  /\ fpc' = "status"
  /\ UNCHANGED <<pages, access_token, url, params, leads, ret>>

\* the second SESSION.get raises
RetryRaises ==
  /\ UNCHANGED <<normVars, dbVars, dbLogVars, mainVars>>
  /\ fpc = "retry"
  /\ reqlog' = Append(reqlog, Req(url, params, 0, TRUE))
  /\ failed' = TRUE
  /\ fpc' = "raised"
  /\ UNCHANGED <<pages, access_token, url, params, leads, resp, ret>>

\* resp.raise_for_status() raises
RaiseForStatus ==
  /\ UNCHANGED <<normVars, dbVars, dbLogVars, mainVars>>
  /\ fpc = "status"
  /\ IsErrorStatus(resp)
  /\ fpc' = "raised"
  /\ UNCHANGED <<pages, access_token, url, params, leads, resp, reqlog, ret, failed>>

\* data = resp.json(); extend; url = paging.get("next"); params = None
PageDone ==
  /\ UNCHANGED <<normVars, dbVars, dbLogVars, mainVars>>
  /\ fpc = "status"
  /\ ~IsErrorStatus(resp)
  /\ leads' = Extend(leads, PageItems(pages[url]))
  /\ url' = NextUrl(pages[url])
  /\ params' = "none"
  /\ fpc' = "get"
  /\ UNCHANGED <<pages, access_token, resp, reqlog, ret, failed>>

\* the loop ends: return leads
Return ==
  /\ UNCHANGED <<normVars, dbVars, dbLogVars, mainVars>>
  /\ fpc = "get"
  /\ url = 0
  /\ ret' = leads
  /\ fpc' = "returned"
  /\ UNCHANGED <<pages, access_token, url, params, leads, resp, reqlog, failed>>

(***************************************************************************)
(* The specifications.  Each one runs one part of the program and holds    *)
(* the variables of the other parts at rest.                               *)
(***************************************************************************)
NormAtRest == nraw = NoRaw /\ nout = NoLead /\ npc = "off"

DbLogAtRest == calls = <<>> /\ marked = {}

MainAtRest ==
  /\ raw_leads = <<>> /\ dry_run = FALSE /\ output = "json" /\ idx = 0
  /\ new_leads = <<>> /\ lid = None /\ files = [json |-> NoFile, csv |-> NoFile]
  /\ pc = "off" /\ run = 0 /\ db0 = {} /\ files0 = files /\ markedAt = {}
  /\ writerCalls = 0 /\ prev = NoRun

FetchAtRest ==
  /\ pages = <<>> /\ access_token = <<>> /\ url = 0 /\ params = "unset"
  /\ leads = <<>> /\ resp = 0 /\ fpc = "off" /\ reqlog = <<>> /\ ret = None
  /\ failed = FALSE

\* main, run after run on the same input, with the LeadDB it opens
InitMain == Init /\ NormAtRest /\ DbLogAtRest /\ FetchAtRest

Next ==
  \/ ExitNoConfig
  \/ StartRun
  \/ Fetched
  \/ FetchRaises
  \/ NormalizeRaises
  \/ SkipNoId
  \/ SkipNoContact
  \/ SkipSeen
  \/ Accept
  \/ Mark
  \/ Write

Spec == InitMain /\ [][Next]_vars

\* normalize_lead on one raw record
InitNormAll ==
  /\ InitNorm /\ DbLogAtRest /\ MainAtRest /\ FetchAtRest
  /\ store = Store({}, {}, "closed")

NextNorm == Normalize

SpecNorm == InitNormAll /\ [][NextNorm]_vars

\* LeadDB under any sequence of calls
InitDBAll == InitDB /\ NormAtRest /\ MainAtRest /\ FetchAtRest

NextDB ==
  \/ DbOpen
  \/ DbIsSeen
  \/ DbMarkSeen
  \/ DbMarkSeenClosed
  \/ DbClose

SpecDB == InitDBAll /\ [][NextDB]_vars

\* fetch_leads against one chain of pages; the function runs on until it
\* returns or raises
InitFetchAll ==
  /\ InitFetch /\ NormAtRest /\ DbLogAtRest /\ MainAtRest
  /\ store = Store({}, {}, "closed")

NextFetch ==
  \/ FetchNoToken
  \/ FetchStart
  \/ Get
  \/ GetRaises
  \/ RetryGet
  \/ RetryRaises
  \/ RaiseForStatus
  \/ PageDone
  \/ Return

SpecFetch == InitFetchAll /\ [][NextFetch]_vars /\ WF_vars(NextFetch)

(***************************************************************************)
(* Claims about normalize_lead (SpecNorm).                                 *)
(***************************************************************************)
Attrs == {"email", "name", "phone"}

\* the entries of fd that classify to attr and whose first value is non-empty
Matches(fd, attr) ==
  { i \in 1..Len(fd) : Classify(FieldKey(fd[i])) = attr /\ Truthy(FirstVal(fd[i])) }

\* those whose first value is still non-empty once trimmed
StrongMatches(fd, attr) ==
  { i \in Matches(fd, attr) : strip(FirstVal(fd[i])) # <<>> }

Earliest(S) == CHOOSE i \in S : \A j \in S : i <= j

\* equal, or both empty (None and "" are both an absent attribute)
SameValue(a, b) == a = b \/ (~Truthy(a) /\ ~Truthy(b))

C7_SetSemantics ==
  /\ store.disk = marked
  /\ \A k \in 1..Len(calls) :
       (calls[k].op = "is_seen" /\ calls[k].result # "ProgrammingError") =>
            (calls[k].result = "True" <=>
               \E j \in 1..(k - 1) : calls[j] = Call("mark_seen", calls[k].id, "ok"))
  /\ (calls # <<>> /\ calls[Len(calls)].op = "mark_seen" /\ store.conn = "open") =>
       calls[Len(calls)].result = "ok"

\* an id marked twice is still seen after the store was closed and reopened
C7_Witness ==
  /\ Len(calls) = 5
  /\ calls[1] = Call("mark_seen", <<"a">>, "ok")
  /\ calls[2] = Call("mark_seen", <<"a">>, "ok")
  /\ calls[3].op = "close"
  /\ calls[4].op = "open"
  /\ calls[5] = Call("is_seen", <<"a">>, "True")
  /\ store.disk = {<<"a">>}

(***************************************************************************)
(* Claims about main (Spec).  db0 and files0 are the Seen-Store and the    *)
(* output files as the run found them; markedAt holds the positions of the *)
(* raw records mark_seen was called for in this run.                       *)
(***************************************************************************)
\* the record has an id (after str()) and a contact channel
Valid(raw) ==
  LET n == Normalized(raw)
  IN ~n.err /\ Str(raw.id) \notin {None, <<>>} /\ (Truthy(n.email) \/ Truthy(n.phone))

\* the record has no id, or neither e-mail nor phone once normalized
Bad(raw) ==
  LET n == Normalized(raw)
  IN raw.id \in {None, <<>>} \/ (n.email \in {None, <<>>} /\ n.phone \in {None, <<>>})

IdOf(raw) == Str(raw.id)

BatchIds == { new_leads[k].lead_id : k \in 1..Len(new_leads) }

\* the positions in the batch of the entries made from this raw record
Occurrences(raw) == { k \in 1..Len(new_leads) : new_leads[k].raw = raw }

\* the positions in the batch of the entries that carry this id
WithId(i) == { k \in 1..Len(new_leads) : new_leads[k].lead_id = i }

\* the first valid record of the input that has this id
FirstValidWithId(i) ==
  Earliest({ j \in 1..Len(raw_leads) : Valid(raw_leads[j]) /\ IdOf(raw_leads[j]) = i })

\* C1 as stated: after a run, every valid raw record whose id was not in the
\* Seen-Store at the start is in the accepted batch exactly once, and its id is
\* in the Seen-Store.
C1_Original ==
  pc = "done" =>
    \A i \in 1..Len(raw_leads) :
      (Valid(raw_leads[i]) /\ IdOf(raw_leads[i]) \notin db0) =>
        /\ Cardinality(Occurrences(raw_leads[i])) = 1
        /\ IdOf(raw_leads[i]) \in store.disk

\* C1 amended: after a completed run that is not a dry run, for every valid raw
\* record whose id was not in the Seen-Store at the start, the accepted batch
\* holds exactly one record with that id, made from the first valid record of
\* the input with that id, and the id is in the Seen-Store.
C1_AcceptedOnceAndSeen ==
  (pc = "done" /\ ~dry_run) =>
    \A i \in 1..Len(raw_leads) :
      (Valid(raw_leads[i]) /\ IdOf(raw_leads[i]) \notin db0) =>
        /\ Cardinality(WithId(IdOf(raw_leads[i]))) = 1
        /\ \A k \in WithId(IdOf(raw_leads[i])) :
             new_leads[k].raw = raw_leads[FirstValidWithId(IdOf(raw_leads[i]))]
        /\ IdOf(raw_leads[i]) \in store.disk

\* two different valid records with the same unseen id: one is accepted
C1_Witness ==
  /\ pc = "done" /\ ~dry_run /\ db0 = {}
  /\ Len(raw_leads) = 2
  /\ raw_leads[1] # raw_leads[2]
  /\ Valid(raw_leads[1]) /\ Valid(raw_leads[2])
  /\ IdOf(raw_leads[1]) = <<"a">> /\ IdOf(raw_leads[2]) = <<"a">>
  /\ Len(new_leads) = 1
  /\ store.disk = {<<"a">>}

\* C2 as stated: a run that follows a completed run on the same input accepts
\* nothing.
C2_Original ==
  (run >= 2 /\ prev.completed) => new_leads = <<>>

\* C2 amended: a run that follows a completed run on the same input accepts
\* nothing, provided the earlier run was not a dry run.
C2_Idempotence ==
  (run >= 2 /\ prev.completed /\ ~prev.dry) => new_leads = <<>>

\* the second of two completed runs, after a first run that wrote leads
C2_Witness ==
  /\ run = 2 /\ pc = "done"
  /\ prev = Summary(FALSE, TRUE)
  /\ files.json.exists
  /\ \E i \in 1..Len(raw_leads) : Valid(raw_leads[i])
  /\ new_leads = <<>>

\* C3: a record with no id, or with neither e-mail nor phone, is never put
\* in the accepted batch and mark_seen is never called for it; every id the
\* run added to the Seen-Store is the id of a record that was accepted.
C3_BadNeverAcceptedNorMarked ==
  /\ \A i \in 1..Len(raw_leads) :
       Bad(raw_leads[i]) => (Occurrences(raw_leads[i]) = {} /\ i \notin markedAt)
  /\ \A k \in 1..Len(new_leads) :
       /\ new_leads[k].lead_id \notin {None, <<>>}
       /\ (new_leads[k].email \notin {None, <<>>} \/ new_leads[k].phone \notin {None, <<>>})
  /\ run >= 1 => (store.disk \ db0) \subseteq { IdOf(raw_leads[i]) : i \in markedAt }

\* a bad record was passed over and a later good one accepted and marked
C3_Witness ==
  /\ pc = "done" /\ ~dry_run
  /\ Len(raw_leads) = 2
  /\ Bad(raw_leads[1]) /\ raw_leads[1].id = <<"b">>
  /\ markedAt = {2}
  /\ Len(new_leads) = 1

\* the accepted batch of a run that marks nothing: every valid record whose
\* id is not in d0, in input order
RECURSIVE UnseenValid(_, _)
UnseenValid(rs, d0) ==
  IF rs = <<>> THEN <<>>
  ELSE (IF Valid(Head(rs)) /\ IdOf(Head(rs)) \notin d0
        THEN <<Entry(Normalized(Head(rs)))>> ELSE <<>>)
       \o UnseenValid(Tail(rs), d0)

\* C4: in a dry run the Seen-Store keeps the content it had at the start,
\* and the records that pass the three checks are collected and handed to the
\* Writer.
C4_DryRun ==
  (run >= 1 /\ dry_run) =>
    /\ store.disk = db0
    /\ markedAt = {}
    /\ pc = "done" =>
         /\ new_leads = UnseenValid(raw_leads, db0)
         /\ writerCalls = 1
         /\ files = write_output(files0, UnseenValid(raw_leads, db0), output)

\* a dry run that collected two records and wrote them
C4_Witness ==
  /\ pc = "done" /\ dry_run
  /\ Len(new_leads) = 2
  /\ store.disk = db0
  /\ files[output].exists
  /\ Len(files[output].rows) = 2

\* the file holds exactly the records of the batch, in order
HoldsExactly(file, batch, out) ==
  /\ Len(file.rows) = Len(batch)
  /\ \A k \in 1..Len(batch) :
       IF out = "json" THEN file.rows[k] = batch[k]
       ELSE /\ file.rows[k].lead_id = batch[k].lead_id
            /\ file.rows[k].raw.dumps = batch[k].raw
            /\ SameValue(file.rows[k].email, batch[k].email)
            /\ SameValue(file.rows[k].phone, batch[k].phone)

\* C5 as stated: after every completed run the output file of the selected
\* mode holds exactly the records that run accepted.
C5_Original ==
  pc = "done" => HoldsExactly(files[output], new_leads, output)

\* C5 amended: after a completed run that accepted at least one record, the
\* output file of the selected mode holds exactly that run's accepted records;
\* a completed run that accepted nothing leaves both files as they were.
C5_Overwrite ==
  pc = "done" =>
    IF new_leads # <<>>
    THEN files[output].exists /\ HoldsExactly(files[output], new_leads, output)
    ELSE files = files0

\* a run overwrote the file an earlier run had written
C5_Witness ==
  /\ pc = "done" /\ run = 2
  /\ files0[output].exists
  /\ new_leads # <<>>
  /\ files0[output].rows # files[output].rows

\* C9: the Writer is called at most once per run, and only when every raw
\* record has been processed; no file changes before that; in a run that is
\* not a dry run every accepted id is in the Seen-Store before the next record
\* is examined and before the Writer runs, so an aborted run leaves them marked
\* and the files untouched.
C9_Ordering ==
  /\ writerCalls <= 1
  /\ writerCalls = 1 => (pc = "done" /\ idx = Len(raw_leads))
  /\ pc \in {"fetch", "loop", "mark", "aborted"} => (files = files0 /\ writerCalls = 0)
  /\ (~dry_run /\ pc \in {"loop", "done", "aborted"}) => BatchIds \subseteq store.disk
  /\ (~dry_run /\ pc = "mark") =>
       { new_leads[k].lead_id : k \in 1..(Len(new_leads) - 1) } \subseteq store.disk

\* a run aborted after it had accepted and marked a record
C9_Witness ==
  /\ pc = "aborted" /\ ~dry_run
  /\ Len(new_leads) = 1
  /\ new_leads[1].lead_id \in store.disk \ db0
  /\ files = files0
  /\ writerCalls = 0

(***************************************************************************)
(* Claims about fetch_leads (SpecFetch).  reqlog is the sequence of the    *)
(* SESSION.get calls made; failed says that some call raised or answered   *)
(* with a status other than 200.                                           *)
(***************************************************************************)
RECURSIVE ConcatPages(_)
ConcatPages(ps) ==
  IF ps = <<>> THEN <<>> ELSE Head(ps).data \o ConcatPages(Tail(ps))

\* one request per page, in page order, the query parameters on the first only
OncePerPage ==
  /\ Len(reqlog) = Len(pages)
  /\ \A k \in 1..Len(reqlog) :
       /\ reqlog[k].url = k
       /\ reqlog[k].params = (IF k = 1 THEN "initial" ELSE "none")

\* C6: when every request succeeds, fetch_leads follows the cursors to the
\* page that has none, requests each page once, terminates, and returns the
\* concatenation of the pages' data lists in page order.
C6_PaginationComplete ==
  /\ [](fpc = "returned" =>
          /\ ret = ConcatPages(pages)
          /\ ~failed => OncePerPage)
  /\ <>(fpc = "returned" \/ failed \/ ~Truthy(access_token))

\* three pages, the middle one empty, fetched without any failure
C6_Witness ==
  /\ fpc = "returned" /\ ~failed
  /\ Len(pages) = 3
  /\ pages[1].data = <<"r1">> /\ pages[2].data = <<>> /\ pages[3].data = <<"r2", "r3">>
  /\ Len(reqlog) = 3
  /\ ret = <<"r1", "r2", "r3">>

\* the request is the last one made for its page
FinalForPage(k) == k = Len(reqlog) \/ reqlog[k + 1].url # reqlog[k].url

\* the request is the first one made for its page
FirstForPage(k) == k = 1 \/ reqlog[k - 1].url # reqlog[k].url

\* C10: a page is requested a second time exactly when its first response was
\* a 5xx, with the same URL and params, and never a third time; when the
\* response finally used for a page is an error status (or the request raised)
\* fetch_leads raises, and a raising fetch_leads returns no list.
C10_InlineRetry ==
  /\ \A u \in 1..Len(pages) :
       Cardinality({ k \in 1..Len(reqlog) : reqlog[k].url = u }) <= 2
  /\ \A k \in 1..Len(reqlog) :
       /\ ~FirstForPage(k) =>
            /\ ~reqlog[k - 1].exc /\ reqlog[k - 1].status >= 500
            /\ reqlog[k].params = reqlog[k - 1].params
       /\ (FirstForPage(k) /\ ~reqlog[k].exc /\ reqlog[k].status >= 500) =>
            IF k = Len(reqlog) THEN fpc = "retry" ELSE reqlog[k + 1].url = reqlog[k].url
       /\ (FinalForPage(k) /\ (reqlog[k].exc \/ reqlog[k].status >= 400)) =>
            /\ k = Len(reqlog)
            /\ fpc \in {"retry", "status", "raised"}
  /\ fpc = "raised" => ret = None
  /\ ret # None => fpc = "returned"

\* the second page answered 501 twice: fetch_leads raised with leads in hand
C10_Witness ==
  /\ fpc = "raised"
  /\ Len(reqlog) = 3
  /\ reqlog[1] = Req(1, "initial", 200, FALSE)
  /\ reqlog[2] = Req(2, "none", 501, FALSE)
  /\ reqlog[3] = Req(2, "none", 501, FALSE)
  /\ leads # <<>>
  /\ ret = None

====
